---- MODULE Spec2Model ----
(***************************************************************************)
(* State-machine model of NetworkSettingsClass (src/src/NetworkSettings.cpp):*)
(* the interface-mode arbiter, the admin access point controller, the raw   *)
(* link-event handler and the event bus.                                    *)
(*                                                                          *)
(* Sequential code is modelled by operators on a record s holding the       *)
(* object's fields, the radio mode of the WiFi driver and the log of the    *)
(* calls made on the network stack during the current operation.  An action *)
(* applies the operator of a whole handler to the current state (Self) and  *)
(* stores the result (Commit).  A handler runs as one step: loop() runs on  *)
(* the scheduler's task, NetworkEvent() between two of its ticks.           *)
(***************************************************************************)
EXTENDS Naturals, Integers, Sequences, FiniteSets, TLC

VARIABLES
    _networkMode,            \* network_mode: "Undefined", "WiFi", "Ethernet"
    _ethConnected,           \* WiredLinkFlag
    _adminEnabled,           \* AdminSession.enabled
    _adminTimeoutCounter,    \* AdminSession.elapsedSeconds (uint32)
    _adminTimeoutCounterMax, \* AdminSession.timeoutSeconds (uint32)
    _connectTimeoutTimer,    \* ReconnectBackoff.sinceLastAttempt (uint32)
    _connectRedoTimer,       \* ReconnectBackoff.sinceForcedDisconnect (uint32)
    _forceDisconnection,     \* ReconnectBackoff.forced
    _dnsServerStatus,        \* captive DNS responder running
    _lastMdnsEnabled,        \* mDNS flag seen at the last reconciliation
    _cbEventList,            \* subscriptions, in subscription order
    radio,                   \* mode last set with WiFi.mode(): "NULL", "STA", "AP", "AP_STA"
    wifiIp,                  \* WiFi.localIP()[0] != 0
    ethIp,                   \* ETH.localIP()[0] != 0
    lastOp,                  \* the operation that made the last step
    calls,                   \* calls made on the stack by that operation, in order
    arbLen,                  \* how many of them the mode arbiter made (loop only)
    modeWrites,              \* assignments to _networkMode made by that operation
    raised,                  \* events published (per operation, or a history)
    delivered,               \* callback invocations <<publish no, subscription no, event>>
    subAt,                   \* per subscription, the number of events published before it
    downSecs,                \* seconds counted by ticks of the current unbroken search:
                             \* WiFi mode, admin session enabled, no address
    offSecs,                 \* seconds counted by ticks since a tick last saw
                             \* isConnected() true (or since the start)
    gotIpOwed,               \* Ethernet got its address with the link up and a
                             \* subscription for NETWORK_GOT_IP in place, and no
                             \* NETWORK_GOT_IP was delivered in Ethernet mode since
    Hostname,                \* config.WiFi.Hostname with the chip id filled in,
                             \* a sequence of characters
    resultHostname           \* what getHostname() returned for it

vars == <<_networkMode, _ethConnected, _adminEnabled, _adminTimeoutCounter,
          _adminTimeoutCounterMax, _connectTimeoutTimer, _connectRedoTimer,
          _forceDisconnection, _dnsServerStatus, _lastMdnsEnabled, _cbEventList,
          radio, wifiIp, ethIp, lastOp, calls, arbLen,
          modeWrites, raised, delivered, subAt, downSecs, offSecs,
          gotIpOwed, Hostname, resultHostname>>

-----------------------------------------------------------------------------
(* Bounds of the model *)

\* longest subscription list and longest publish history explored by the
\* event-bus specification
MaxSubs == 2
MaxPublish == 2
\* longest subscription list explored together with ticks and raw events
MaxApiSubs == 1
\* search timeout and redo timeout of the reconnect back-off, in seconds,
\* scaled down (defaults.h is not part of the sources at hand)
WIFI_RECONNECT_TIMEOUT == 1
WIFI_RECONNECT_REDO_TIMEOUT == 2
\* seconds per configured minute of admin timeout, scaled down from 60
ApTimeoutUnit == 2
\* largest configured admin timeout (minutes) explored
MaxApTimeout == 1
\* longest hostname explored over the whole alphabet HostnameChars
MaxHostname == 3

\* the back-off timers run freely while the admin session is off: no further
\* second elapses once one of them is this far (the uint32 counters of the
\* code stay far from wrapping)
MaxTimer == WIFI_RECONNECT_REDO_TIMEOUT + 1

-----------------------------------------------------------------------------
(* Value domains *)

network_mode == {"Undefined", "WiFi", "Ethernet"}

\* network_event values the code raises, and the wildcard filter
network_event == {"NETWORK_START", "NETWORK_STOP", "NETWORK_CONNECTED",
                  "NETWORK_DISCONNECTED", "NETWORK_GOT_IP"}
NETWORK_EVENT_MAX == "NETWORK_EVENT_MAX"

\* raw events of the stack: the eight the handler names and one it ignores
EthEvents == {"ARDUINO_EVENT_ETH_START", "ARDUINO_EVENT_ETH_STOP",
              "ARDUINO_EVENT_ETH_CONNECTED", "ARDUINO_EVENT_ETH_GOT_IP",
              "ARDUINO_EVENT_ETH_DISCONNECTED"}
WifiEvents == {"ARDUINO_EVENT_WIFI_STA_CONNECTED",
               "ARDUINO_EVENT_WIFI_STA_DISCONNECTED",
               "ARDUINO_EVENT_WIFI_STA_GOT_IP"}
RawEvents == EthEvents \cup WifiEvents \cup {"ARDUINO_EVENT_WIFI_READY"}

\* the settings read by the code: WiFi.Dhcp, WiFi.Ssid (empty or not),
\* Mdns.Enabled, WiFi.ApTimeout (minutes)
Configs == [Dhcp : BOOLEAN, SsidEmpty : BOOLEAN, MdnsEnabled : BOOLEAN,
            ApTimeout : 0..MaxApTimeout]

-----------------------------------------------------------------------------
(* The state as a record, and back *)

Self ==
    [_networkMode |-> _networkMode, _ethConnected |-> _ethConnected,
     _adminEnabled |-> _adminEnabled,
     _adminTimeoutCounter |-> _adminTimeoutCounter,
     _adminTimeoutCounterMax |-> _adminTimeoutCounterMax,
     _connectTimeoutTimer |-> _connectTimeoutTimer,
     _connectRedoTimer |-> _connectRedoTimer,
     _forceDisconnection |-> _forceDisconnection,
     _dnsServerStatus |-> _dnsServerStatus,
     _lastMdnsEnabled |-> _lastMdnsEnabled,
     _cbEventList |-> _cbEventList,
     timerDue |-> FALSE, radio |-> radio,
     wifiIp |-> wifiIp, ethIp |-> ethIp,
     calls |-> <<>>, arbLen |-> 0, modeWrites |-> 0,
     raised |-> <<>>, delivered |-> <<>>, subAt |-> subAt,
     downSecs |-> downSecs, offSecs |-> offSecs, gotIpOwed |-> gotIpOwed]

Commit(t, op) ==
    /\ _networkMode' = t._networkMode
    /\ _ethConnected' = t._ethConnected
    /\ _adminEnabled' = t._adminEnabled
    /\ _adminTimeoutCounter' = t._adminTimeoutCounter
    /\ _adminTimeoutCounterMax' = t._adminTimeoutCounterMax
    /\ _connectTimeoutTimer' = t._connectTimeoutTimer
    /\ _connectRedoTimer' = t._connectRedoTimer
    /\ _forceDisconnection' = t._forceDisconnection
    /\ _dnsServerStatus' = t._dnsServerStatus
    /\ _lastMdnsEnabled' = t._lastMdnsEnabled
    /\ _cbEventList' = t._cbEventList
    /\ radio' = t.radio
    /\ wifiIp' = t.wifiIp
    /\ ethIp' = t.ethIp
    /\ calls' = t.calls
    /\ arbLen' = t.arbLen
    /\ modeWrites' = t.modeWrites
    /\ raised' = t.raised
    /\ delivered' = t.delivered
    /\ subAt' = t.subAt
    /\ downSecs' = t.downSecs
    /\ offSecs' = t.offSecs
    /\ gotIpOwed' = t.gotIpOwed
    /\ lastOp' = op
    /\ UNCHANGED <<Hostname, resultHostname>>

\* an assignment to _networkMode
SetMode(s, m) == [s EXCEPT !._networkMode = m, !.modeWrites = @ + 1]

\* one call on the network stack, the DNS responder or the mDNS responder
Call(s, c) == [s EXCEPT !.calls = Append(@, c)]

\* WiFi.mode(m)
WiFiMode(s, m) == [Call(s, "WiFi.mode(" \o m \o ")") EXCEPT !.radio = m]

\* WiFi.begin() and WiFi.disconnect(): recorded as calls; radio keeps the mode
\* last set with WiFi.mode()
WiFiBegin(s) == Call(s, "WiFi.begin")
WiFiDisconnect(s) == Call(s, "WiFi.disconnect")

isConnected(s) == s.wifiIp \/ s.ethIp

-----------------------------------------------------------------------------
(* setupMode, enableAdminMode, setHostname, setStaticIp, applyConfig *)

\* mutant: the DNS flag is left set when the responder is stopped
setupMode_KeepsDnsFlag(s) ==
    IF s._adminEnabled
    THEN [Call(Call(Call(WiFiMode(Call(s, "setupMode"), "AP_STA"),
                "WiFi.softAPConfig"), "WiFi.softAP"), "dns.start")
            EXCEPT !._dnsServerStatus = TRUE]
    ELSE LET s1 == Call(Call(s, "setupMode"), "dns.stop")
         IN  IF s1._networkMode = "WiFi"
             THEN WiFiMode(s1, "STA")
             ELSE WiFiMode(s1, "NULL")

setupMode(s) ==
    IF s._adminEnabled
    THEN [Call(Call(Call(WiFiMode(Call(s, "setupMode"), "AP_STA"),
                "WiFi.softAPConfig"), "WiFi.softAP"), "dns.start")
            EXCEPT !._dnsServerStatus = TRUE]
    ELSE LET s1 == [Call(Call(s, "setupMode"), "dns.stop")
                      EXCEPT !._dnsServerStatus = FALSE]
         IN  IF s1._networkMode = "WiFi"
             THEN WiFiMode(s1, "STA")
             ELSE WiFiMode(s1, "NULL")

enableAdminMode(s, cfg) ==
    setupMode([Call(s, "enableAdminMode") EXCEPT
                 !._adminEnabled = TRUE,
                 !._adminTimeoutCounter = 0,
                 !._adminTimeoutCounterMax = cfg.ApTimeout * ApTimeoutUnit])

setHostname(s) ==
    LET s0 == Call(s, "setHostname")
    IN  IF s0._networkMode = "Undefined" THEN s0
        ELSE IF s0._networkMode = "WiFi"
        THEN setupMode(WiFiMode(WiFiMode(Call(s0, "WiFi.hostname"),
                                         "AP_STA"), "STA"))
        ELSE Call(s0, "ETH.setHostname")

\* mutant: the address is applied to the WiFi interface only
setStaticIp_WiFiOnly(s, cfg) ==
    LET s0 == Call(s, "setStaticIp")
        how == IF cfg.Dhcp THEN "(dhcp)" ELSE "(static)"
    IN  IF s0._networkMode = "WiFi"
        THEN Call(s0, "WiFi.config" \o how)
        ELSE s0

setStaticIp(s, cfg) ==
    LET s0 == Call(s, "setStaticIp")
        how == IF cfg.Dhcp THEN "(dhcp)" ELSE "(static)"
    IN  IF s0._networkMode = "Undefined" THEN s0
        ELSE IF s0._networkMode = "WiFi"
        THEN Call(s0, "WiFi.config" \o how)
        ELSE Call(s0, "ETH.config" \o how)

\* WiFi.begin(ssid, password) and WiFi.begin() are logged alike
applyConfig(s, cfg) ==
    LET s1 == setHostname(Call(s, "applyConfig"))
    IN  IF cfg.SsidEmpty THEN s1
        ELSE setStaticIp(WiFiBegin(s1), cfg)

-----------------------------------------------------------------------------
(* getHostname: strings are sequences of one-character strings *)

\* size of the hostname buffers, less the terminator (NetworkSettings.h)
WIFI_MAX_HOSTNAME_STRLEN == 31

Digits == {"0", "1", "2", "3", "4", "5", "6", "7", "8", "9"}
Upper == {"A", "B", "C", "D", "E", "F", "G", "H", "I", "J", "K", "L", "M",
          "N", "O", "P", "Q", "R", "S", "T", "U", "V", "W", "X", "Y", "Z"}
Lower == {"a", "b", "c", "d", "e", "f", "g", "h", "i", "j", "k", "l", "m",
          "n", "o", "p", "q", "r", "s", "t", "u", "v", "w", "x", "y", "z"}

\* isalnum() in the C locale
isalnum(c) == c \in Digits \cup Upper \cup Lower

\* the characters line 462 replaces by a hyphen
HyphenChars == {" ", "_", "-", "+", "!", "?", "*"}

\* APP_HOSTNAME ("OpenDTU-%06X", defaults.h) with the chip id 0xABCDEF
APP_HOSTNAME == <<"O", "p", "e", "n", "D", "T", "U", "-",
                  "A", "B", "C", "D", "E", "F">>

\* snprintf(buffer, size, ...): at most size - 1 characters are stored
snprintf(size, str) ==
    IF Len(str) > size - 1 THEN SubSeq(str, 1, size - 1) ELSE str

\* the loop of lines 458-468: pC is the position read in preparedHostname,
\* result the characters written so far (pos = Len(result))
RECURSIVE CopyLoop(_, _, _)
CopyLoop(preparedHostname, pC, result) ==
    IF pC > Len(preparedHostname) \/ ~(Len(result) < WIFI_MAX_HOSTNAME_STRLEN)
    THEN result
    ELSE LET c == preparedHostname[pC]
         IN  CopyLoop(preparedHostname, pC + 1,
                      IF isalnum(c) THEN Append(result, c)
                      ELSE IF c \in HyphenChars THEN Append(result, "-")
                      ELSE result)

\* the loop of lines 473-476
RECURSIVE StripLoop(_)
StripLoop(result) ==
    IF Len(result) > 0 /\ result[Len(result)] = "-"
    THEN StripLoop(SubSeq(result, 1, Len(result) - 1))
    ELSE result

\* mutant: trailing hyphens are kept
getHostname_KeepsTrailing(hostname) ==
    LET preparedHostname == snprintf(WIFI_MAX_HOSTNAME_STRLEN + 1, hostname)
        result == CopyLoop(preparedHostname, 1, <<>>)
    IN  IF Len(result) = 0
        THEN snprintf(WIFI_MAX_HOSTNAME_STRLEN + 1, APP_HOSTNAME)
        ELSE result

getHostname(hostname) ==
    LET preparedHostname == snprintf(WIFI_MAX_HOSTNAME_STRLEN + 1, hostname)
        result == StripLoop(CopyLoop(preparedHostname, 1, <<>>))
    IN  IF Len(result) = 0
        THEN snprintf(WIFI_MAX_HOSTNAME_STRLEN + 1, APP_HOSTNAME)
        ELSE result

-----------------------------------------------------------------------------
(* Initial state: the member defaults followed by init(), which calls       *)
(* setupMode() with the admin session enabled                               *)

InitFields ==
    /\ _networkMode = "Undefined"
    /\ _ethConnected = FALSE
    /\ _adminEnabled = TRUE
    /\ _adminTimeoutCounter = 0
    /\ _adminTimeoutCounterMax = 0
    /\ _connectTimeoutTimer = 0
    /\ _connectRedoTimer = 0
    /\ _forceDisconnection = FALSE
    /\ _dnsServerStatus = TRUE
    /\ _lastMdnsEnabled = FALSE
    /\ _cbEventList = <<>>
    /\ radio = "AP_STA"
    /\ wifiIp = FALSE
    /\ ethIp = FALSE
    /\ lastOp = <<"init">>
    /\ calls = <<>>
    /\ arbLen = 0
    /\ modeWrites = 0
    /\ raised = <<>>
    /\ delivered = <<>>
    /\ subAt = <<>>
    /\ downSecs = 0
    /\ offSecs = 0
    /\ gotIpOwed = FALSE

\* the default hostname template is configured
Init ==
    /\ InitFields
    /\ Hostname = APP_HOSTNAME
    /\ resultHostname = <<>>

-----------------------------------------------------------------------------
(* Event bus: onEvent (subscribe) and raiseEvent (publish) *)

Filters == network_event \cup {NETWORK_EVENT_MAX}

\* a null callback is refused; otherwise the subscription is appended
onEvent(s, cbEvent, event) ==
    IF cbEvent = "null" THEN s
    ELSE [s EXCEPT !._cbEventList = Append(@, [cb |-> cbEvent, event |-> event]),
                   !.subAt = Append(@, Len(s.raised))]

onEventResult(cbEvent) == cbEvent # "null"

Matches(entry, event) ==
    /\ entry.cb # "null"
    /\ (entry.event = event \/ entry.event = NETWORK_EVENT_MAX)

\* mutant: the filter is ignored
Invoked_Unfiltered(list, event) ==
    [i \in 1..Len(list) |-> i]

\* the subscriptions invoked for event, in the order the loop visits them
Invoked(list, event) ==
    SelectSeq([i \in 1..Len(list) |-> i], LAMBDA i : Matches(list[i], event))

raiseEvent(s, event) ==
    LET n == Len(s.raised) + 1
        idx == Invoked(s._cbEventList, event)
    IN  [s EXCEPT !.raised = Append(@, event),
                  !.delivered = @ \o [k \in 1..Len(idx) |-> <<n, idx[k], event>>]]

-----------------------------------------------------------------------------
(* Link monitor: NetworkEvent, the handler of the stack's raw events *)

\* mutant: link-up switches the mode in the handler
NetworkEvent_SetsMode(s, event) ==
    CASE event = "ARDUINO_EVENT_ETH_START" ->
            IF s._networkMode = "Ethernet"
            THEN raiseEvent(s, "NETWORK_START") ELSE s
      [] event = "ARDUINO_EVENT_ETH_STOP" ->
            IF s._networkMode = "Ethernet"
            THEN raiseEvent(s, "NETWORK_STOP") ELSE s
      [] event = "ARDUINO_EVENT_ETH_CONNECTED" ->
            raiseEvent(SetMode([s EXCEPT !._ethConnected = TRUE], "Ethernet"),
                       "NETWORK_CONNECTED")
      [] event = "ARDUINO_EVENT_ETH_GOT_IP" ->
            IF s._networkMode = "Ethernet"
            THEN raiseEvent(s, "NETWORK_GOT_IP") ELSE s
      [] event = "ARDUINO_EVENT_ETH_DISCONNECTED" ->
            LET s1 == [s EXCEPT !._ethConnected = FALSE]
            IN  IF s1._networkMode = "Ethernet"
                THEN raiseEvent(s1, "NETWORK_DISCONNECTED") ELSE s1
      [] event = "ARDUINO_EVENT_WIFI_STA_CONNECTED" ->
            IF s._networkMode = "WiFi"
            THEN raiseEvent(s, "NETWORK_CONNECTED") ELSE s
      [] event = "ARDUINO_EVENT_WIFI_STA_DISCONNECTED" ->
            IF s._networkMode = "WiFi"
            THEN raiseEvent(WiFiBegin(WiFiDisconnect(s)), "NETWORK_DISCONNECTED")
            ELSE s
      [] event = "ARDUINO_EVENT_WIFI_STA_GOT_IP" ->
            IF s._networkMode = "WiFi"
            THEN raiseEvent(s, "NETWORK_GOT_IP") ELSE s
      [] OTHER -> s

\* mutant: a WiFi disconnect is published whatever the mode
NetworkEvent_Ungated(s, event) ==
    CASE event = "ARDUINO_EVENT_ETH_START" ->
            IF s._networkMode = "Ethernet"
            THEN raiseEvent(s, "NETWORK_START") ELSE s
      [] event = "ARDUINO_EVENT_ETH_STOP" ->
            IF s._networkMode = "Ethernet"
            THEN raiseEvent(s, "NETWORK_STOP") ELSE s
      [] event = "ARDUINO_EVENT_ETH_CONNECTED" ->
            raiseEvent([s EXCEPT !._ethConnected = TRUE], "NETWORK_CONNECTED")
      [] event = "ARDUINO_EVENT_ETH_GOT_IP" ->
            IF s._networkMode = "Ethernet"
            THEN raiseEvent(s, "NETWORK_GOT_IP") ELSE s
      [] event = "ARDUINO_EVENT_ETH_DISCONNECTED" ->
            LET s1 == [s EXCEPT !._ethConnected = FALSE]
            IN  IF s1._networkMode = "Ethernet"
                THEN raiseEvent(s1, "NETWORK_DISCONNECTED") ELSE s1
      [] event = "ARDUINO_EVENT_WIFI_STA_CONNECTED" ->
            IF s._networkMode = "WiFi"
            THEN raiseEvent(s, "NETWORK_CONNECTED") ELSE s
      [] event = "ARDUINO_EVENT_WIFI_STA_DISCONNECTED" ->
            IF s._networkMode = "WiFi"
            THEN raiseEvent(WiFiBegin(WiFiDisconnect(s)), "NETWORK_DISCONNECTED")
            ELSE raiseEvent(s, "NETWORK_DISCONNECTED")
      [] event = "ARDUINO_EVENT_WIFI_STA_GOT_IP" ->
            IF s._networkMode = "WiFi"
            THEN raiseEvent(s, "NETWORK_GOT_IP") ELSE s
      [] OTHER -> s

\* mutant: link-up turns the radio off in the handler
NetworkEvent_Reconfigures(s, event) ==
    CASE event = "ARDUINO_EVENT_ETH_START" ->
            IF s._networkMode = "Ethernet"
            THEN raiseEvent(s, "NETWORK_START") ELSE s
      [] event = "ARDUINO_EVENT_ETH_STOP" ->
            IF s._networkMode = "Ethernet"
            THEN raiseEvent(s, "NETWORK_STOP") ELSE s
      [] event = "ARDUINO_EVENT_ETH_CONNECTED" ->
            raiseEvent(WiFiMode([s EXCEPT !._ethConnected = TRUE], "NULL"),
                       "NETWORK_CONNECTED")
      [] event = "ARDUINO_EVENT_ETH_GOT_IP" ->
            IF s._networkMode = "Ethernet"
            THEN raiseEvent(s, "NETWORK_GOT_IP") ELSE s
      [] event = "ARDUINO_EVENT_ETH_DISCONNECTED" ->
            LET s1 == [s EXCEPT !._ethConnected = FALSE]
            IN  IF s1._networkMode = "Ethernet"
                THEN raiseEvent(s1, "NETWORK_DISCONNECTED") ELSE s1
      [] event = "ARDUINO_EVENT_WIFI_STA_CONNECTED" ->
            IF s._networkMode = "WiFi"
            THEN raiseEvent(s, "NETWORK_CONNECTED") ELSE s
      [] event = "ARDUINO_EVENT_WIFI_STA_DISCONNECTED" ->
            IF s._networkMode = "WiFi"
            THEN raiseEvent(WiFiBegin(WiFiDisconnect(s)), "NETWORK_DISCONNECTED")
            ELSE s
      [] event = "ARDUINO_EVENT_WIFI_STA_GOT_IP" ->
            IF s._networkMode = "WiFi"
            THEN raiseEvent(s, "NETWORK_GOT_IP") ELSE s
      [] OTHER -> s

NetworkEvent(s, event) ==
    CASE event = "ARDUINO_EVENT_ETH_START" ->
            IF s._networkMode = "Ethernet"
            THEN raiseEvent(s, "NETWORK_START") ELSE s
      [] event = "ARDUINO_EVENT_ETH_STOP" ->
            IF s._networkMode = "Ethernet"
            THEN raiseEvent(s, "NETWORK_STOP") ELSE s
      [] event = "ARDUINO_EVENT_ETH_CONNECTED" ->
            raiseEvent([s EXCEPT !._ethConnected = TRUE], "NETWORK_CONNECTED")
      [] event = "ARDUINO_EVENT_ETH_GOT_IP" ->
            IF s._networkMode = "Ethernet"
            THEN raiseEvent(s, "NETWORK_GOT_IP") ELSE s
      [] event = "ARDUINO_EVENT_ETH_DISCONNECTED" ->
            LET s1 == [s EXCEPT !._ethConnected = FALSE]
            IN  IF s1._networkMode = "Ethernet"
                THEN raiseEvent(s1, "NETWORK_DISCONNECTED") ELSE s1
      [] event = "ARDUINO_EVENT_WIFI_STA_CONNECTED" ->
            IF s._networkMode = "WiFi"
            THEN raiseEvent(s, "NETWORK_CONNECTED") ELSE s
      [] event = "ARDUINO_EVENT_WIFI_STA_DISCONNECTED" ->
            IF s._networkMode = "WiFi"
            THEN raiseEvent(WiFiBegin(WiFiDisconnect(s)), "NETWORK_DISCONNECTED")
            ELSE s
      [] event = "ARDUINO_EVENT_WIFI_STA_GOT_IP" ->
            IF s._networkMode = "WiFi"
            THEN raiseEvent(s, "NETWORK_GOT_IP") ELSE s
      [] OTHER -> s

-----------------------------------------------------------------------------
(* loop(): mode arbiter, one-second timer, admin timeout, reconnect         *)
(* back-off, captive DNS dispatch, mDNS reconciliation                      *)

\* mutant: Ethernet wins only once it has an address
ModeArbiter_NeedsAddress(s, cfg) ==
    IF s._ethConnected /\ s.ethIp
    THEN IF s._networkMode # "Ethernet"
         THEN setHostname(setStaticIp(WiFiMode(SetMode(s, "Ethernet"), "NULL"), cfg))
         ELSE s
    ELSE IF s._networkMode # "WiFi"
         THEN applyConfig(enableAdminMode(SetMode(s, "WiFi"), cfg), cfg)
         ELSE s

\* mutant: the Ethernet branch does not test the current mode
ModeArbiter_Repeats(s, cfg) ==
    IF s._ethConnected
    THEN setHostname(setStaticIp(WiFiMode(
             IF s._networkMode # "Ethernet" THEN SetMode(s, "Ethernet") ELSE s,
             "NULL"), cfg))
    ELSE IF s._networkMode # "WiFi"
         THEN applyConfig(enableAdminMode(SetMode(s, "WiFi"), cfg), cfg)
         ELSE s

\* mutant: the WiFi branch is taken only from the Undefined mode
ModeArbiter_NoFallback(s, cfg) ==
    IF s._ethConnected
    THEN IF s._networkMode # "Ethernet"
         THEN setHostname(setStaticIp(WiFiMode(SetMode(s, "Ethernet"), "NULL"), cfg))
         ELSE s
    ELSE IF s._networkMode = "Undefined"
         THEN applyConfig(enableAdminMode(SetMode(s, "WiFi"), cfg), cfg)
         ELSE s

ModeArbiter(s, cfg) ==
    IF s._ethConnected
    THEN IF s._networkMode # "Ethernet"
         THEN setHostname(setStaticIp(WiFiMode(SetMode(s, "Ethernet"), "NULL"), cfg))
         ELSE s
    ELSE IF s._networkMode # "WiFi"
         THEN applyConfig(enableAdminMode(SetMode(s, "WiFi"), cfg), cfg)
         ELSE s

\* mutant: the admin counter runs without a configured timeout
TimerStep_NoMaxCheck(s) ==
    IF s.timerDue
    THEN [s EXCEPT
            !._adminTimeoutCounter = IF s._adminEnabled THEN @ + 1 ELSE @,
            !._connectTimeoutTimer = @ + 1,
            !._connectRedoTimer = @ + 1,
            !.timerDue = FALSE]
    ELSE s

TimerStep(s) ==
    IF s.timerDue
    THEN [s EXCEPT
            !._adminTimeoutCounter =
                IF s._adminEnabled /\ s._adminTimeoutCounterMax > 0
                THEN @ + 1 ELSE @,
            !._connectTimeoutTimer = @ + 1,
            !._connectRedoTimer = @ + 1,
            !.timerDue = FALSE]
    ELSE s

\* mutant: the counter is not reset while disconnected
AdminTimeout_NoGrace(s) ==
    IF s._adminTimeoutCounter > s._adminTimeoutCounterMax
    THEN setupMode([s EXCEPT !._adminEnabled = FALSE])
    ELSE s

\* mutant: the session ends when the counter reaches the maximum
AdminTimeout_AtLeast(s) ==
    LET s1 == IF ~isConnected(s) THEN [s EXCEPT !._adminTimeoutCounter = 0] ELSE s
    IN  IF s1._adminTimeoutCounter >= s1._adminTimeoutCounterMax
        THEN setupMode([s1 EXCEPT !._adminEnabled = FALSE])
        ELSE s1

AdminTimeout(s) ==
    LET s1 == IF ~isConnected(s) THEN [s EXCEPT !._adminTimeoutCounter = 0] ELSE s
    IN  IF s1._adminTimeoutCounter > s1._adminTimeoutCounterMax
        THEN setupMode([s1 EXCEPT !._adminEnabled = FALSE])
        ELSE s1

ReconnectBackoff(s, cfg) ==
    IF isConnected(s)
    THEN [s EXCEPT !._connectTimeoutTimer = 0, !._connectRedoTimer = 0]
    ELSE LET a == IF s._connectTimeoutTimer > WIFI_RECONNECT_TIMEOUT
                      /\ ~s._forceDisconnection
                  THEN [WiFiMode(s, "AP") EXCEPT !._connectRedoTimer = 0,
                                                 !._forceDisconnection = TRUE]
                  ELSE s
         IN  IF a._connectRedoTimer > WIFI_RECONNECT_REDO_TIMEOUT
                 /\ a._forceDisconnection
             THEN [applyConfig(WiFiMode(a, "AP_STA"), cfg)
                     EXCEPT !._connectTimeoutTimer = 0,
                            !._forceDisconnection = FALSE]
             ELSE a

AdminStep(s, cfg) ==
    IF s._adminEnabled THEN ReconnectBackoff(AdminTimeout(s), cfg) ELSE s

DnsStep(s) ==
    IF s._dnsServerStatus THEN Call(s, "dns.processNextRequest") ELSE s

\* beginOk: whether MDNS.begin() succeeds
\* mutant: the flag is remembered only once MDNS.begin() has succeeded
handleMDNS_RetriesAfterFailure(s, cfg, beginOk) ==
    IF s._lastMdnsEnabled = cfg.MdnsEnabled THEN s
    ELSE LET s1 == Call(s, "MDNS.end")
         IN  IF ~cfg.MdnsEnabled
             THEN [s1 EXCEPT !._lastMdnsEnabled = cfg.MdnsEnabled]
             ELSE IF ~beginOk THEN Call(s1, "MDNS.begin")
             ELSE Call(Call([s1 EXCEPT !._lastMdnsEnabled = cfg.MdnsEnabled],
                            "MDNS.begin"), "MDNS.addService")

handleMDNS(s, cfg, beginOk) ==
    IF s._lastMdnsEnabled = cfg.MdnsEnabled THEN s
    ELSE LET s1 == Call([s EXCEPT !._lastMdnsEnabled = cfg.MdnsEnabled], "MDNS.end")
         IN  IF ~cfg.MdnsEnabled THEN s1
             ELSE IF ~beginOk THEN Call(s1, "MDNS.begin")
             ELSE Call(Call(s1, "MDNS.begin"), "MDNS.addService")

\* the statements of loop() run one after the other, each on the state the
\* one before left: s1 after the arbiter, s2 after the timer, s3 after the
\* admin block, s4 after the DNS dispatch
loop(s, cfg, beginOk) ==
    CHOOSE s5 \in
        { handleMDNS(s4, cfg, beginOk) :
            s4 \in { DnsStep(s3) :
            s3 \in { AdminStep(s2, cfg) :
            s2 \in { TimerStep([s1 EXCEPT !.arbLen = Len(s1.calls)]) :
            s1 \in { ModeArbiter(s, cfg) } } } } } : TRUE

-----------------------------------------------------------------------------
(* Actions.  Each handler reads its inputs from the environment: the       *)
(* settings (Configuration.get()), whether a second has passed since        *)
(* _lastTimerCall, whether MDNS.begin() succeeds.                           *)

\* The length of the current unbroken search as a tick leaves it: the tick
\* started in state s and ended in state t.  It restarts when the tick
\* switches the mode, finds the admin session off or ends it, sees an
\* address, or resumes a suspended search; it is kept up to two past the
\* search timeout.
SearchSeconds(s, t, elapsed) ==
    IF /\ s._networkMode = "WiFi" /\ t._networkMode = "WiFi"
       /\ s._adminEnabled /\ t._adminEnabled
       /\ ~isConnected(s)
       /\ ~(s._forceDisconnection /\ ~t._forceDisconnection)
    THEN IF elapsed /\ s.downSecs < WIFI_RECONNECT_TIMEOUT + 2
         THEN s.downSecs + 1 ELSE s.downSecs
    ELSE 0

\* The time without address as a tick leaves it: 0 if the tick sees an
\* address, one more if a second has elapsed; it is kept up to one past the
\* search timeout.
OffSeconds(s, elapsed) ==
    IF isConnected(s) THEN 0
    ELSE IF elapsed /\ s.offSecs < WIFI_RECONNECT_TIMEOUT + 1
         THEN s.offSecs + 1 ELSE s.offSecs

\* WiFi.ApTimeout is read only by the enableAdminMode() of line 223, and
\* MDNS.begin() is called only when mDNS is switched on (lines 148-162): a
\* tick that does not get there is taken with one value of them
ReadsApTimeout == ~_ethConnected /\ _networkMode # "WiFi"
CallsMdnsBegin(cfg) == cfg.MdnsEnabled /\ ~_lastMdnsEnabled

LoopWith(seconds) ==
    \E cfg \in Configs, elapsed \in seconds, beginOk \in BOOLEAN :
        /\ ReadsApTimeout \/ cfg.ApTimeout = 0
        /\ CallsMdnsBegin(cfg) \/ beginOk
        /\ elapsed => /\ _connectTimeoutTimer < MaxTimer
                      /\ _connectRedoTimer < MaxTimer
        /\ \E s \in {[Self EXCEPT !.timerDue = elapsed]} :
           \E t \in {loop(s, cfg, beginOk)} :
              Commit([t EXCEPT !.downSecs = SearchSeconds(s, t, elapsed),
                               !.offSecs = OffSeconds(s, elapsed)],
                     <<"loop", elapsed, cfg.SsidEmpty, cfg.MdnsEnabled>>)

Loop == LoopWith(BOOLEAN)

\* Whether a got-address notification is owed once the handler, started in
\* state s for the raw event e, has ended in state t: none is owed once the
\* link or the interface is down or a NETWORK_GOT_IP was delivered in
\* Ethernet mode; one is owed when Ethernet got its address with the link up
\* and a subscription for NETWORK_GOT_IP in place and it was not delivered.
Owed(s, t, e) ==
    IF e \in {"ARDUINO_EVENT_ETH_DISCONNECTED", "ARDUINO_EVENT_ETH_STOP"}
    THEN FALSE
    ELSE IF /\ t._networkMode = "Ethernet"
            /\ \E k \in 1..Len(t.delivered) :
                  t.delivered[k][3] = "NETWORK_GOT_IP"
    THEN FALSE
    ELSE IF /\ e = "ARDUINO_EVENT_ETH_GOT_IP" /\ s._ethConnected
            /\ \E i \in 1..Len(s._cbEventList) :
                  Matches(s._cbEventList[i], "NETWORK_GOT_IP")
    THEN TRUE
    ELSE s.gotIpOwed

RawEvent ==
    \E e \in RawEvents :
        \E s \in {Self} : \E t \in {NetworkEvent(s, e)} :
            Commit([t EXCEPT !.gotIpOwed = Owed(s, t, e)], <<"NetworkEvent", e>>)

CallOnEvent ==
    /\ Len(_cbEventList) < MaxApiSubs
    /\ \E cb \in {"null", "cb"}, f \in Filters :
          Commit(onEvent(Self, cb, f), <<"onEvent", onEventResult(cb)>>)

CallRaiseEvent ==
    \E e \in network_event : Commit(raiseEvent(Self, e), <<"raiseEvent", e>>)

CallEnableAdminMode ==
    \E cfg \in Configs :
        Commit(enableAdminMode(Self, cfg), <<"enableAdminMode">>)

CallApplyConfig ==
    \E cfg \in Configs :
        Commit(applyConfig(Self, cfg), <<"applyConfig", cfg.SsidEmpty>>)

\* the stack: an interface gains or loses its address
IpChange ==
    \E w \in BOOLEAN, e \in BOOLEAN :
        /\ <<w, e>> # <<wifiIp, ethIp>>
        /\ Commit([Self EXCEPT !.wifiIp = w, !.ethIp = e,
                                !.downSecs = IF w \/ e THEN 0 ELSE @],
                  <<"env">>)

\* the controller under ticks, raw events, the two public reconfiguration
\* calls and address changes; the logs hold the last operation only
Next ==
    \/ Loop
    \/ RawEvent
    \/ CallEnableAdminMode
    \/ CallApplyConfig
    \/ IpChange

Spec == Init /\ [][Next]_vars

\* every entry point, with subscriptions; ticks within one second, no address
LoopSameSecond == LoopWith({FALSE})

NextApi ==
    \/ LoopSameSecond
    \/ RawEvent
    \/ CallOnEvent
    \/ CallRaiseEvent
    \/ CallEnableAdminMode
    \/ CallApplyConfig

SpecApi == Init /\ [][NextApi]_vars

\* the event bus alone; raised and delivered hold the whole history
History == [Self EXCEPT !.raised = raised, !.delivered = delivered]

BusOnEvent ==
    /\ Len(_cbEventList) < MaxSubs
    /\ \E cb \in {"null", "cb"}, f \in Filters :
          Commit(onEvent(History, cb, f), <<"onEvent", onEventResult(cb)>>)

BusRaiseEvent ==
    /\ Len(raised) < MaxPublish
    /\ \E e \in network_event :
          Commit(raiseEvent(History, e), <<"raiseEvent", e>>)

NextBus ==
    \/ BusOnEvent
    \/ BusRaiseEvent

SpecBus == Init /\ [][NextBus]_vars

\* ticks and raw events; the scheduler runs the loop task forever
\* (TASK_FOREVER), so a tick that would change the state is eventually taken
NextFair ==
    \/ Loop
    \/ RawEvent

SpecFair == Init /\ [][NextFair]_vars /\ WF_vars(Loop)

\* the same with subscriptions
NextLink ==
    \/ Loop
    \/ RawEvent
    \/ CallOnEvent

SpecLink == Init /\ [][NextLink]_vars /\ WF_vars(Loop)

\* getHostname() alone, for every configured hostname of a bounded set: the
\* strings up to MaxHostname characters of HostnameChars (three alphanumeric
\* characters, the seven replaced ones, two others), the same strings after
\* a prefix that fills the buffer up to its last two places, and three
\* hostnames given as examples
HostnameChars == {"a", "Z", "7"} \cup HyphenChars \cup {".", "@"}

ShortHostnames ==
    UNION {[1..n -> HostnameChars] : n \in 0..MaxHostname}

Filler == [i \in 1..(WIFI_MAX_HOSTNAME_STRLEN - 2) |-> "x"]

ExampleHostnames ==
    { <<"M", "y", " ", "R", "o", "u", "t", "e", "r", "!", "!">>,
      <<"a", "b", "c", "_", "1", "2", "3">>,
      <<"-", "-", "-">> }

Hostnames ==
    ShortHostnames \cup {Filler \o h : h \in ShortHostnames}
        \cup ExampleHostnames

InitHostname ==
    /\ InitFields
    /\ Hostname \in Hostnames
    /\ resultHostname = <<>>

CallGetHostname ==
    /\ resultHostname' = getHostname(Hostname)
    /\ lastOp' = <<"getHostname">>
    /\ UNCHANGED <<_networkMode, _ethConnected, _adminEnabled,
                   _adminTimeoutCounter, _adminTimeoutCounterMax,
                   _connectTimeoutTimer, _connectRedoTimer,
                   _forceDisconnection, _dnsServerStatus, _lastMdnsEnabled,
                   _cbEventList, radio, wifiIp, ethIp, calls, arbLen,
                   modeWrites, raised, delivered, subAt, downSecs, offSecs,
                   gotIpOwed, Hostname>>

NextHostname ==
    \/ CallGetHostname

SpecHostname == InitHostname /\ [][NextHostname]_vars

-----------------------------------------------------------------------------
(* Properties *)

Has(log, c) == \E i \in 1..Len(log) : log[i] = c
Count(log, c) == Cardinality({i \in 1..Len(log) : log[i] = c})
IsTick == lastOp[1] = "loop"
IsRawEvent == lastOp[1] = "NetworkEvent"
Connected == wifiIp \/ ethIp

\* C1: at the end of a tick that ran with the wired link flag set the mode
\* is Ethernet (never WiFi, never Undefined), whether or not Ethernet has an
\* address; this holds for every tick, hence for every later tick while the
\* flag stays set.
C1_EthernetPreempts ==
    (IsTick /\ _ethConnected) => _networkMode = "Ethernet"

\* a tick ended in Ethernet mode while only WiFi had an address
C1_Witness ==
    /\ IsTick /\ _ethConnected /\ _networkMode = "Ethernet"
    /\ ~ethIp /\ wifiIp

\* C2: _networkMode changes only in a step of loop(), which assigns it at
\* most once; NetworkEvent, onEvent, raiseEvent, enableAdminMode and
\* applyConfig (with the setHostname and setStaticIp calls they make) never
\* assign it.
C2_ModeChangesOnlyInTick ==
    [][ /\ (_networkMode' # _networkMode => lastOp'[1] = "loop")
        /\ modeWrites' <= 1
        /\ (lastOp'[1] # "loop" => modeWrites' = 0) ]_vars

\* a tick switched the mode to Ethernet with a subscription in place
C2_Witness ==
    /\ IsTick /\ modeWrites = 1 /\ _networkMode = "Ethernet"
    /\ Len(_cbEventList) > 0

\* the hostname, resp. the address configuration, was applied to the
\* interface of the current mode during the last operation
HostnameApplied ==
    IF _networkMode = "WiFi" THEN Has(calls, "WiFi.hostname")
    ELSE Has(calls, "ETH.setHostname")
AddressApplied ==
    IF _networkMode = "WiFi"
    THEN Has(calls, "WiFi.config(dhcp)") \/ Has(calls, "WiFi.config(static)")
    ELSE Has(calls, "ETH.config(dhcp)") \/ Has(calls, "ETH.config(static)")

\* C3 as stated: every tick that changes the mode applies the hostname and
\* the address configuration to the new interface, whatever the SSID.
C3_Original ==
    (IsTick /\ modeWrites > 0) => (HostnameApplied /\ AddressApplied)

\* C3 as amended: every tick that changes the mode applies the hostname to
\* the new interface, and applies the address configuration when the new mode
\* is Ethernet or the configured SSID is not empty.
C3_TransitionReconfigures ==
    (IsTick /\ modeWrites > 0) =>
        /\ HostnameApplied
        /\ (_networkMode = "Ethernet" \/ ~lastOp[3]) => AddressApplied

\* a tick switched to WiFi with an SSID configured and applied a static address
C3_Witness ==
    /\ IsTick /\ modeWrites = 1 /\ _networkMode = "WiFi" /\ ~lastOp[3]
    /\ Has(calls, "WiFi.hostname") /\ Has(calls, "WiFi.config(static)")

\* C4: a tick that starts with the admin session enabled and sees
\* isConnected() false leaves _adminTimeoutCounter at 0 and the session
\* enabled.
C4_NoExpiryWhileDisconnected ==
    [][ (lastOp'[1] = "loop" /\ _adminEnabled /\ ~Connected)
            => (_adminTimeoutCounter' = 0 /\ _adminEnabled') ]_vars

\* a second passed in a tick with the session enabled, a timeout configured
\* and no address: the counter was advanced and reset
C4_Witness ==
    /\ IsTick /\ lastOp[2] /\ ~lastOp[3] /\ modeWrites = 0
    /\ _adminEnabled /\ _adminTimeoutCounterMax > 0 /\ ~Connected
    /\ _adminTimeoutCounter = 0

\* the admin counter as line 229 leaves it in a tick that does not call
\* enableAdminMode()
CounterAfterTimer ==
    IF lastOp'[2] /\ _adminEnabled /\ _adminTimeoutCounterMax > 0
    THEN _adminTimeoutCounter + 1 ELSE _adminTimeoutCounter

\* C5: the session goes from enabled to disabled only in a tick that sees
\* the device connected with the counter one past _adminTimeoutCounterMax
\* (a timeout > 0), and that tick stops the DNS responder and leaves the
\* radio without access point; every tick that sees the device connected
\* with the counter past the maximum disables the session; and the session
\* goes from disabled to enabled only in an operation that calls
\* enableAdminMode().
C5_AdminTimeoutDisablesOnce ==
    [][ /\ (_adminEnabled /\ ~_adminEnabled') =>
              /\ lastOp'[1] = "loop"
              /\ Connected
              /\ _adminTimeoutCounterMax' > 0
              /\ _adminTimeoutCounter' = _adminTimeoutCounterMax' + 1
              /\ ~_dnsServerStatus'
              /\ radio' \in {"STA", "NULL"}
              /\ Has(calls', "dns.stop")
        /\ (/\ lastOp'[1] = "loop"
            /\ (modeWrites' = 0 \/ _networkMode' = "Ethernet")
            /\ _adminEnabled /\ Connected
            /\ CounterAfterTimer > _adminTimeoutCounterMax) => ~_adminEnabled'
        /\ (~_adminEnabled /\ _adminEnabled') => Has(calls', "enableAdminMode")
      ]_vars

\* a tick in WiFi mode ended the session
C5_Witness ==
    /\ IsTick /\ modeWrites = 0 /\ ~_adminEnabled /\ Connected
    /\ _adminTimeoutCounterMax > 0
    /\ _adminTimeoutCounter = _adminTimeoutCounterMax + 1
    /\ Has(calls, "dns.stop") /\ radio = "STA"

\* the back-off timers as lines 234-235 leave them
TimerAfter(x) == IF lastOp'[2] THEN x + 1 ELSE x

\* a tick in WiFi mode, with the admin session enabled and no address
BackoffTick ==
    /\ lastOp'[1] = "loop" /\ modeWrites' = 0 /\ _networkMode = "WiFi"
    /\ _adminEnabled /\ ~Connected

\* C6 as stated: the tick in which an unbroken search (WiFi mode, admin
\* session enabled, no address) passes WIFI_RECONNECT_TIMEOUT seconds ends
\* with the radio in AP-only and _forceDisconnection true; and a tick of a
\* suspended search whose redo timer passes WIFI_RECONNECT_REDO_TIMEOUT
\* returns the radio to AP+station, clears _forceDisconnection and calls
\* applyConfig exactly once.
C6_Original ==
    [][ lastOp'[1] = "loop" =>
          /\ (lastOp'[2] /\ downSecs' = WIFI_RECONNECT_TIMEOUT + 1)
                => (_forceDisconnection' /\ radio' = "AP")
          /\ (/\ BackoffTick /\ _forceDisconnection
              /\ TimerAfter(_connectRedoTimer) > WIFI_RECONNECT_REDO_TIMEOUT)
                => /\ ~_forceDisconnection' /\ radio' = "AP_STA"
                   /\ Count(calls', "applyConfig") = 1
      ]_vars

\* What the code does: in a tick in WiFi mode with the admin session enabled
\* and no address, (a) if the search timer exceeds WIFI_RECONNECT_TIMEOUT and the search is
\* not suspended, the radio goes to AP-only, _forceDisconnection becomes
\* true, the redo timer restarts and applyConfig is not called; (b) if the
\* search is suspended and the redo timer exceeds
\* WIFI_RECONNECT_REDO_TIMEOUT, the radio returns to AP+station,
\* _forceDisconnection becomes false, the search timer restarts and
\* applyConfig is called exactly once; (c) otherwise the radio and the flag
\* stay as they are and applyConfig is not called.  So an unsuspended search
\* never outlasts the search timeout beyond the tick that sees it.
BackoffCycleOnTimers ==
    [][ BackoffTick =>
          IF ~_forceDisconnection
          THEN IF TimerAfter(_connectTimeoutTimer) > WIFI_RECONNECT_TIMEOUT
               THEN /\ _forceDisconnection' /\ radio' = "AP"
                    /\ _connectRedoTimer' = 0
                    /\ Count(calls', "applyConfig") = 0
               ELSE /\ ~_forceDisconnection' /\ radio' = radio
                    /\ Count(calls', "applyConfig") = 0
          ELSE IF TimerAfter(_connectRedoTimer) > WIFI_RECONNECT_REDO_TIMEOUT
               THEN /\ ~_forceDisconnection' /\ radio' = "AP_STA"
                    /\ _connectTimeoutTimer' = 0
                    /\ Count(calls', "applyConfig") = 1
               ELSE /\ _forceDisconnection' /\ radio' = radio
                    /\ Count(calls', "applyConfig") = 0
      ]_vars

\* a tick resumed the search after the redo timeout and applied the station
\* configuration once
BackoffCycleSeen ==
    /\ IsTick /\ modeWrites = 0 /\ _networkMode = "WiFi" /\ _adminEnabled
    /\ ~Connected /\ ~_forceDisconnection /\ radio = "AP_STA"
    /\ _connectTimeoutTimer = 0
    /\ _connectRedoTimer > WIFI_RECONNECT_REDO_TIMEOUT
    /\ Count(calls, "applyConfig") = 1

\* C7: a tick that starts with the mode matching the wired link flag makes
\* no call from the arbiter step and leaves the mode as it is.
C7_ArbiterIdempotent ==
    [][ (/\ lastOp'[1] = "loop"
         /\ \/ (_ethConnected /\ _networkMode = "Ethernet")
            \/ (~_ethConnected /\ _networkMode = "WiFi"))
            => (arbLen' = 0 /\ modeWrites' = 0 /\ _networkMode' = _networkMode)
      ]_vars

\* a tick in settled Ethernet mode: nothing from the arbiter, no call at all
C7_Witness ==
    /\ IsTick /\ _ethConnected /\ _networkMode = "Ethernet"
    /\ modeWrites = 0 /\ arbLen = 0 /\ calls = <<>>

\* C8: every callback invocation hands the event of its publish to a
\* subscription made before that publish whose filter is that event or the
\* wildcard; every such subscription is invoked exactly once per publish (so
\* a wildcard subscription sees every event published after it subscribed);
\* the invocations are in publish order and, within one publish, in
\* subscription order.
C8_EventBusDelivery ==
    /\ \A k \in 1..Len(delivered) :
          LET n == delivered[k][1]  i == delivered[k][2]  e == delivered[k][3]
          IN  /\ n \in 1..Len(raised) /\ i \in 1..Len(_cbEventList)
              /\ e = raised[n]
              /\ subAt[i] < n
              /\ _cbEventList[i].event \in {e, NETWORK_EVENT_MAX}
    /\ \A n \in 1..Len(raised), i \in 1..Len(_cbEventList) :
          (subAt[i] < n /\ _cbEventList[i].event \in {raised[n], NETWORK_EVENT_MAX})
              => Count(delivered, <<n, i, raised[n]>>) = 1
    /\ \A k \in 1..Len(delivered) - 1 :
          \/ delivered[k][1] < delivered[k + 1][1]
          \/ /\ delivered[k][1] = delivered[k + 1][1]
             /\ delivered[k][2] < delivered[k + 1][2]

\* a Connected subscription and a wildcard subscription, a Disconnected and
\* then a Connected event: the first got one invocation, the second two
C8_Witness ==
    /\ Len(_cbEventList) = 2
    /\ _cbEventList[1].event = "NETWORK_CONNECTED"
    /\ _cbEventList[2].event = NETWORK_EVENT_MAX
    /\ subAt = <<0, 0>>
    /\ raised = <<"NETWORK_DISCONNECTED", "NETWORK_CONNECTED">>
    /\ delivered = << <<1, 2, "NETWORK_DISCONNECTED">>,
                      <<2, 1, "NETWORK_CONNECTED">>,
                      <<2, 2, "NETWORK_CONNECTED">> >>

\* C9: NetworkEvent publishes at most one event; it publishes for a WiFi
\* station event only in WiFi mode and for an Ethernet event other than
\* link-up only in Ethernet mode; for Ethernet link-up it publishes
\* Connected in every mode.
C9_PublishGatedByMode ==
    IsRawEvent =>
        /\ Len(raised) <= 1
        /\ raised # <<>> =>
              \/ lastOp[2] \in WifiEvents /\ _networkMode = "WiFi"
              \/ lastOp[2] \in EthEvents /\ _networkMode = "Ethernet"
              \/ lastOp[2] = "ARDUINO_EVENT_ETH_CONNECTED"
        /\ lastOp[2] = "ARDUINO_EVENT_ETH_CONNECTED"
              => raised = <<"NETWORK_CONNECTED">>

\* a WiFi disconnect arrived in Ethernet mode and nothing was published
C9_Witness ==
    /\ lastOp = <<"NetworkEvent", "ARDUINO_EVENT_WIFI_STA_DISCONNECTED">>
    /\ _networkMode = "Ethernet" /\ raised = <<>>

\* C10 as stated: NetworkEvent makes no call on the network stack.
C10_Original ==
    IsRawEvent => calls = <<>>

\* C10 as amended: NetworkEvent makes no call on the network stack, except
\* that for a WiFi station-disconnected event in WiFi mode it calls
\* WiFi.disconnect and then WiFi.begin; it never sets the radio mode, the
\* hostname or the address.
C10_HandlerOnlyReconnects ==
    IsRawEvent =>
        IF lastOp[2] = "ARDUINO_EVENT_WIFI_STA_DISCONNECTED"
           /\ _networkMode = "WiFi"
        THEN calls = <<"WiFi.disconnect", "WiFi.begin">>
        ELSE calls = <<>>

\* a WiFi disconnect arrived in WiFi mode and the station was restarted
C10_Witness ==
    /\ lastOp = <<"NetworkEvent", "ARDUINO_EVENT_WIFI_STA_DISCONNECTED">>
    /\ _networkMode = "WiFi"
    /\ calls = <<"WiFi.disconnect", "WiFi.begin">>

\* the mode that matches the wired link flag
ModeOfFlag == IF _ethConnected THEN "Ethernet" ELSE "WiFi"

\* C11: with raw events between ticks, every tick ends with the mode that
\* matches the wired link flag (Ethernet if set, WiFi if not); no tick ends
\* in the Undefined mode and no step returns to it; and under fair ticking a
\* flag that stays set (resp. clear) from some point on is from some point
\* on always reflected by the mode.
C11_LevelTriggered ==
    /\ [](IsTick => _networkMode = ModeOfFlag)
    /\ [][ (lastOp'[1] = "loop" \/ _networkMode # "Undefined")
              => _networkMode' # "Undefined" ]_vars
    /\ (<>[]_ethConnected => <>[](_networkMode = "Ethernet"))
    /\ (<>[](~_ethConnected) => <>[](_networkMode = "WiFi"))

\* the link dropped and a later tick returned the mode from Ethernet to WiFi
\* (the search had been suspended by earlier ticks)
C11_Witness ==
    /\ IsTick /\ modeWrites = 1 /\ _networkMode = "WiFi" /\ ~_ethConnected
    /\ _forceDisconnection

\* the hostname as the buffer holds it, each character kept, replaced by a
\* hyphen or dropped
Kept(h) ==
    SelectSeq(snprintf(WIFI_MAX_HOSTNAME_STRLEN + 1, h),
              LAMBDA c : isalnum(c) \/ c \in HyphenChars)
Replaced(h) ==
    [i \in 1..Len(Kept(h)) |-> IF isalnum(Kept(h)[i]) THEN Kept(h)[i] ELSE "-"]
\* the position of the last character of r that is no hyphen, 0 if none
LastKept(r) ==
    IF \A i \in 1..Len(r) : r[i] = "-" THEN 0
    ELSE CHOOSE n \in 1..Len(r) :
            r[n] # "-" /\ \A i \in (n + 1)..Len(r) : r[i] = "-"

C13_Original ==
    (IsTick /\ _networkMode = "Ethernet") =>
        /\ ~Has(calls, "WiFi.mode(AP)")
        /\ ~Has(calls, "WiFi.mode(AP_STA)")
        /\ ~Has(calls, "applyConfig")
        /\ ~Has(calls, "WiFi.begin")

\* C14: _adminTimeoutCounter grows only in a tick in which a second has
\* elapsed, with the session enabled at the timer step (enabled before the
\* tick, or enabled by the tick's enableAdminMode()) and a timeout > 0, and
\* then by one (from 0 if the tick called enableAdminMode()); with a timeout
\* of 0 the counter is 0 and no step disables the session.
C14_CounterAdvancesOncePerSecond ==
    [][ /\ _adminTimeoutCounter' > _adminTimeoutCounter =>
              /\ lastOp'[1] = "loop" /\ lastOp'[2]
              /\ _adminEnabled \/ Has(calls', "enableAdminMode")
              /\ _adminTimeoutCounterMax' > 0
              /\ _adminTimeoutCounter' =
                    IF Has(calls', "enableAdminMode") THEN 1
                    ELSE _adminTimeoutCounter + 1
        /\ _adminTimeoutCounterMax' = 0 =>
              /\ _adminTimeoutCounter' = 0
              /\ _adminEnabled => _adminEnabled'
      ]_vars

\* a second elapsed in a connected tick with a timeout configured: the
\* counter went from 0 to 1
C14_Witness ==
    /\ lastOp[1] = "loop" /\ lastOp[2] /\ modeWrites = 0
    /\ Connected /\ _adminEnabled
    /\ _adminTimeoutCounterMax > 0 /\ _adminTimeoutCounter = 1

\* C15: the DNS-running flag equals the admin-enabled flag in every state
\* (after init(), after enableAdminMode(), after the auto-disable); a tick
\* calls processNextRequest once if the session is enabled when the tick
\* reaches the dispatch and not at all otherwise, so a tick that disables
\* the session dispatches nothing; no other operation dispatches.
C15_DnsDispatchFollowsSession ==
    /\ _dnsServerStatus = _adminEnabled
    /\ IsTick => Count(calls, "dns.processNextRequest")
                    = IF _adminEnabled THEN 1 ELSE 0
    /\ ~IsTick => ~Has(calls, "dns.processNextRequest")

\* a tick ended the session, stopped the responder and dispatched nothing
C15_Witness ==
    /\ IsTick /\ ~_adminEnabled /\ ~_dnsServerStatus
    /\ Has(calls, "dns.stop")
    /\ ~Has(calls, "dns.processNextRequest")

MdnsCalls == {"MDNS.end", "MDNS.begin", "MDNS.addService"}

\* C16: a tick whose configured mDNS flag (lastOp[4]) equals the flag seen
\* at the previous reconciliation makes no mDNS call, also when the last
\* MDNS.begin() failed and when the tick switches the mode; a tick whose
\* flag differs calls MDNS.end() once and then, if the flag is set,
\* MDNS.begin() once; the flag seen is then the configured one; no other
\* operation makes an mDNS call or changes the flag seen.
C16_MdnsReconciled ==
    [][ IF lastOp'[1] = "loop"
        THEN /\ _lastMdnsEnabled' = lastOp'[4]
             /\ IF lastOp'[4] = _lastMdnsEnabled
                THEN \A c \in MdnsCalls : ~Has(calls', c)
                ELSE /\ Count(calls', "MDNS.end") = 1
                     /\ Count(calls', "MDNS.begin")
                           = IF lastOp'[4] THEN 1 ELSE 0
        ELSE /\ _lastMdnsEnabled' = _lastMdnsEnabled
             /\ \A c \in MdnsCalls : ~Has(calls', c)
      ]_vars

\* a tick switched the mode with mDNS enabled as before and made no mDNS call
C16_Witness ==
    /\ IsTick /\ modeWrites = 1 /\ lastOp[4] /\ _lastMdnsEnabled
    /\ \A c \in MdnsCalls : ~Has(calls, c)

\* C17 as stated: at the end of every tick _forceDisconnection is true only
\* if the radio is in AP-only mode.
C17_Original ==
    (IsTick /\ _forceDisconnection) => radio = "AP"

\* C18 as stated: a tick sets _forceDisconnection only when the ticks have
\* seen isConnected() false for more than WIFI_RECONNECT_TIMEOUT seconds on
\* end.
C18_Original ==
    [][ (lastOp'[1] = "loop" /\ ~_forceDisconnection /\ _forceDisconnection')
            => offSecs' > WIFI_RECONNECT_TIMEOUT ]_vars

\* C19 as stated: at the end of every tick and after every
\* enableAdminMode(), if the admin session is enabled the radio is in
\* AP-only or AP+station mode.
C19_Original ==
    (lastOp[1] \in {"loop", "enableAdminMode"} /\ _adminEnabled)
        => radio \in {"AP", "AP_STA"}

\* C20 as stated: once Ethernet has got its address with the link up and a
\* subscription for NETWORK_GOT_IP in place, then, unless the link goes
\* down, NETWORK_GOT_IP is eventually delivered with Ethernet authoritative.
C20_Original ==
    gotIpOwed ~> ~gotIpOwed

====
